---- MODULE Spec2Model ----
(***************************************************************************)
(* A model of BlenderPlugin/vrchat_avatar_optimizer.py: the bone pruning,  *)
(* mesh decimation, texture rescaling, bridge cache, selection bridge and  *)
(* folder watch operators, each as one action over the state of the        *)
(* Blender scene and of the class-level caches.                            *)
(***************************************************************************)
EXTENDS Integers, Sequences, FiniteSets, TLC

VARIABLES
    objects,           \* bpy.data.objects: name -> [type, hide, select, vertex_groups]
    edit_bones,        \* armature.data.edit_bones: bone name -> parent name (NoParent for a root)
    active,            \* context.view_layer.objects.active (an object name or NoObject)
    mode,              \* the interaction mode of the scene
    images,            \* bpy.data.images: image index -> <<width, height>>
    max_texture_size,  \* props.max_texture_size
    file,              \* the bridge file: [exists, mtime, content]
    data,              \* BridgeData._data
    last_modified,     \* BridgeData._last_modified
    bridge_props,      \* props.bridge_avatar_name, bridge_keep_count, bridge_remove_count
    running,           \* VRC_OT_folder_watch._running
    timer,             \* the timer the running watch operator registered
    watch_enabled,     \* props.watch_enabled
    auto_apply,        \* props.auto_apply
    auto_delete,       \* props.auto_delete
    polygons,          \* obj.data.polygons of each mesh: object name -> triangles
    decimate_ratio,    \* props.decimate_ratio, in hundredths
    loads,             \* the BridgeData.load calls of the last operation, in order
    last               \* the last operation: its name, return value, report and counts

vars == <<objects, edit_bones, active, mode, images, max_texture_size, file, data,
          last_modified, bridge_props, running, timer, watch_enabled, auto_apply, auto_delete,
          polygons, decimate_ratio, loads, last>>

sceneVars  == <<objects, edit_bones, active, mode>>
imageVars  == <<images, max_texture_size>>
bridgeVars == <<file, data, last_modified, bridge_props>>
watchVars  == <<running, timer, watch_enabled, auto_apply, auto_delete>>
meshVars   == <<polygons, decimate_ratio>>

\* ------------------------------------------------------------------ bounds
MaxBones == 3
NumImages == 2
MaxMtime == 2

\* ------------------------------------------------------------- operations
NoParent == 0
NoObject == <<>>
\* Python's None where a document is expected, and where a timer is.
None == [kind |-> "None"]
NoTimer == "None"

Report(op, ret, msg, n, m) == [op |-> op, ret |-> ret, msg |-> msg, n |-> n, m |-> m]

\* ==========================================================================
\* Scene objects
\* ==========================================================================
ArmatureName == <<"A", "r", "m">>
BodyName     == <<"B", "o", "d", "y">>
HairName     == <<"H", "a", "i", "r">>

Object(type, hide, select, vgs) ==
    [type |-> type, hide |-> hide, select |-> select, vertex_groups |-> vgs]

\* context.selected_objects: the selected objects that are visible.
selected_objects == {o \in DOMAIN objects : objects[o].select /\ ~objects[o].hide}

\* obj.select_set(state): Blender selects only a base that is selectable (not hidden).
select_set(obj, state) ==
    [obj EXCEPT !.select = IF state THEN ~obj.hide ELSE FALSE]

\* obj.hide_set(state): hiding an object also deselects it.
hide_set(obj, state) ==
    [obj EXCEPT !.hide = state, !.select = IF state THEN FALSE ELSE obj.select]

\* props.decimate_ratio is a float property with hard limits; the model counts
\* it in hundredths, the unit of its floor and of the operator's report.
MinDecimateRatio     == 1
DefaultDecimateRatio == 50
MaxDecimateRatio     == 100

\* ==========================================================================
\* VRC_OT_remove_unused_bones
\* ==========================================================================
BoneNames  == 1 .. MaxBones
\* Vertex group names: the bone names, and 0 for a group that names no bone.
GroupNames == 0 .. MaxBones

\* Mutant: the armature is looked up among all objects of the scene.
SelectedArmatureAnyObject ==
    IF \E o \in DOMAIN objects : objects[o].type = "ARMATURE"
    THEN CHOOSE o \in DOMAIN objects : objects[o].type = "ARMATURE"
    ELSE NoObject

\* The first armature among the selected objects, or NoObject.
SelectedArmature ==
    IF \E o \in selected_objects : objects[o].type = "ARMATURE"
    THEN CHOOSE o \in selected_objects : objects[o].type = "ARMATURE"
    ELSE NoObject

\* used_bones: the vertex group names of every visible mesh.
used_bones ==
    UNION {objects[o].vertex_groups :
             o \in {x \in DOMAIN objects : objects[x].type = "MESH" /\ ~objects[x].hide}}

RECURSIVE Ancestors(_, _)
\* The bones on the parent chain of b in the bone collection eb, b excluded.
Ancestors(eb, b) ==
    IF eb[b] = NoParent \/ eb[b] \notin DOMAIN eb THEN {}
    ELSE {eb[b]} \cup Ancestors(eb, eb[b])

\* bone.children_recursive
children_recursive(eb, b) == {c \in DOMAIN eb : b \in Ancestors(eb, c)}

\* Mutant: the used-descendant test is left out.
ShouldRemoveNoChildTest(eb, used, b) ==
    b \notin used /\ eb[b] # NoParent

\* Mutant: the root test is left out.
ShouldRemoveNoRootTest(eb, used, b) ==
    /\ b \notin used
    /\ ~(\E c \in children_recursive(eb, b) : c \in used)

\* Mutant: a bone counts as needed when it has any child at all.
ShouldRemoveLeafOnly(eb, used, b) ==
    /\ b \notin used
    /\ children_recursive(eb, b) = {}
    /\ eb[b] # NoParent

\* The test of the collecting loop: bone b of eb is appended to bones_to_remove.
ShouldRemove(eb, used, b) ==
    /\ b \notin used
    /\ LET has_used_child == \E c \in children_recursive(eb, b) : c \in used
       IN  ~has_used_child /\ eb[b] # NoParent

bones_to_remove(eb, used) == {b \in DOMAIN eb : ShouldRemove(eb, used, b)}

\* edit_bones.remove(bone): the children of the bone are reparented to its parent.
EditBonesRemove(eb, b) ==
    [c \in DOMAIN eb \ {b} |-> IF eb[c] = b THEN eb[b] ELSE eb[c]]

RECURSIVE RemoveLoop(_, _, _)
\* The deleting loop over the collected names: <<edit bones left, removed>>.
RemoveLoop(eb, order, removed) ==
    IF order = <<>> THEN <<eb, removed>>
    ELSE LET bone_name == Head(order)
         IN  IF bone_name \in DOMAIN eb
             THEN RemoveLoop(EditBonesRemove(eb, bone_name), Tail(order), removed + 1)
             ELSE RemoveLoop(eb, Tail(order), removed)

\* The orders in which a set of names can have been collected.
Orders(S) == {s \in [1 .. Cardinality(S) -> S] : \A i, j \in DOMAIN s : i # j => s[i] # s[j]}

RemoveUnusedBones ==
    LET armature == SelectedArmature IN
    IF armature = NoObject
    THEN /\ last' = Report("remove_unused_bones", "CANCELLED", "Select an armature first", 0, 0)
         /\ loads' = <<>>
         /\ UNCHANGED <<sceneVars, imageVars, bridgeVars, watchVars, meshVars>>
    ELSE \E order \in Orders(bones_to_remove(edit_bones, used_bones)) :
           LET res == RemoveLoop(edit_bones, order, 0) IN
           /\ active' = armature
           /\ mode' = "OBJECT"
           /\ edit_bones' = res[1]
           /\ last' = Report("remove_unused_bones", "FINISHED", "Removed unused bones", res[2], 0)
           /\ loads' = <<>>
           /\ UNCHANGED <<objects, imageVars, bridgeVars, watchVars, meshVars>>

\* The user selects or deselects a visible object in the viewport.
UserSelect(o) ==
    /\ o \in DOMAIN objects
    /\ ~objects[o].hide
    /\ objects' = [objects EXCEPT ![o] = select_set(@, ~@.select)]
    /\ last' = Report("user_select", "FINISHED", "", 0, 0)
    /\ loads' = <<>>
    /\ UNCHANGED <<edit_bones, active, mode, imageVars, bridgeVars, watchVars, meshVars>>

\* The user hides or reveals an object in the viewport.
UserHide(o) ==
    /\ o \in DOMAIN objects
    /\ objects' = [objects EXCEPT ![o] = hide_set(@, ~@.hide)]
    /\ last' = Report("user_hide", "FINISHED", "", 0, 0)
    /\ loads' = <<>>
    /\ UNCHANGED <<edit_bones, active, mode, imageVars, bridgeVars, watchVars, meshVars>>

\* The bone forests over BoneNames: every bone's parent is a bone of a smaller name.
Forests == {f \in [BoneNames -> {NoParent} \cup BoneNames] : \A b \in BoneNames : f[b] < b}

\* The state the other components are left in while one component is exercised.
NoImages == /\ images = <<>>
            /\ max_texture_size = 2048
NoBridge == /\ file = [exists |-> FALSE, mtime |-> 0, content |-> None]
            /\ data = None
            /\ last_modified = 0
            /\ bridge_props = [avatar_name |-> "", keep_count |-> 0, remove_count |-> 0]
NoMeshes == /\ polygons = <<>>
            /\ decimate_ratio = DefaultDecimateRatio
NoWatch  == /\ running = FALSE
            /\ timer = NoTimer
            /\ watch_enabled = FALSE
            /\ auto_apply = TRUE
            /\ auto_delete = FALSE

\* A scene of two meshes and at most one armature, over every bone forest and
\* every set of vertex group names on the first mesh.
BonesInit ==
    /\ \E hasArmature \in BOOLEAN, bodyGroups \in SUBSET GroupNames,
          hairGroups \in {{}} \cup {{g} : g \in GroupNames} :
         objects =
           [o \in (IF hasArmature THEN {ArmatureName} ELSE {}) \cup {BodyName, HairName} |->
              IF o = ArmatureName THEN Object("ARMATURE", FALSE, FALSE, {})
              ELSE IF o = BodyName THEN Object("MESH", FALSE, FALSE, bodyGroups)
              ELSE Object("MESH", FALSE, FALSE, hairGroups)]
    /\ edit_bones \in Forests
    /\ active = NoObject
    /\ mode \in {"OBJECT", "POSE"}
    /\ NoImages /\ NoBridge /\ NoWatch /\ NoMeshes
    /\ loads = <<>>
    /\ last = Report("none", "FINISHED", "", 0, 0)

BonesNext ==
    \/ RemoveUnusedBones
    \/ UserSelect(ArmatureName)
    \/ UserHide(ArmatureName)
    \/ UserHide(HairName)

SpecBones == BonesInit /\ [][BonesNext]_vars

\* ==========================================================================
\* Properties of bone removal
\* ==========================================================================
\* A step of remove_unused_bones that found an armature and ran to the end.
RemoveStep == last'.op = "remove_unused_bones" /\ last'.ret = "FINISHED"

\* keep: the used bones and every ancestor of a used bone.
Keep(eb, used) ==
    (used \cap DOMAIN eb) \cup UNION {Ancestors(eb, b) : b \in used \cap DOMAIN eb}

Roots(eb) == {b \in DOMAIN eb : eb[b] = NoParent}

\* C1: the bones that survive remove_unused_bones are closed under parent in
\* the parent relation the armature had before the run, and every bone named
\* by a vertex group of a visible mesh survives with all of its ancestors.
C1_SurvivorsClosedUnderParent ==
    [][RemoveStep =>
        /\ \A b \in DOMAIN edit_bones' :
             edit_bones[b] # NoParent => edit_bones[b] \in DOMAIN edit_bones'
        /\ \A b \in used_bones \cap DOMAIN edit_bones :
             {b} \cup Ancestors(edit_bones, b) \subseteq DOMAIN edit_bones']_vars

\* The chain Root -> Spine -> Arm with only Arm referenced, after a run that
\* removed nothing.
C1_Witness ==
    /\ last.op = "remove_unused_bones" /\ last.ret = "FINISHED" /\ last.n = 0
    /\ {1, 2, 3} \subseteq DOMAIN edit_bones
    /\ edit_bones[1] = NoParent /\ edit_bones[2] = 1 /\ edit_bones[3] = 2
    /\ used_bones = {3}

\* C2 as stated: the bones deleted are exactly all bones minus keep, parentless
\* bones that are neither used nor an ancestor of a used bone included.
C2_RemovesExactlyPrunable ==
    [][RemoveStep =>
        DOMAIN edit_bones' = Keep(edit_bones, used_bones)]_vars

\* C2 amended: the bones deleted are exactly the bones that are neither in
\* keep nor parentless; keep, the unused roots and the removed set partition
\* the armature's bones, and the reported count is the size of the removed set.
C2_RemovesPrunableNonRoots ==
    [][RemoveStep =>
        /\ DOMAIN edit_bones' = Keep(edit_bones, used_bones) \cup Roots(edit_bones)
        /\ last'.n = Cardinality(DOMAIN edit_bones \ DOMAIN edit_bones')]_vars

\* A run removed a bone and left a parentless bone that is outside keep.
C2_Witness ==
    /\ last.op = "remove_unused_bones" /\ last.ret = "FINISHED" /\ last.n > 0
    /\ \E b \in Roots(edit_bones) : b \notin Keep(edit_bones, used_bones)

\* C3: whatever the order in which the collected bones are deleted the
\* surviving skeleton is the one the run produced, and a second run on the
\* result with the meshes unchanged collects and removes no bone.
C3_OrderIndependentFixedPoint ==
    [][RemoveStep =>
        /\ \A order \in Orders(DOMAIN edit_bones \ DOMAIN edit_bones') :
             RemoveLoop(edit_bones, order, 0)[1] = edit_bones'
        /\ bones_to_remove(edit_bones', used_bones') = {}
        /\ (last.op = "remove_unused_bones" /\ last.ret = "FINISHED") =>
              (last'.n = 0 /\ edit_bones' = edit_bones)]_vars

\* A run that removed nothing on an armature that earlier runs had taken two
\* or more bones from.
C3_Witness ==
    /\ last.op = "remove_unused_bones" /\ last.ret = "FINISHED" /\ last.n = 0
    /\ Cardinality(DOMAIN edit_bones) + 2 <= MaxBones

\* C8 as stated: the run is cancelled without any mutation exactly when the
\* scene holds no armature.
C8_FailsIffNoArmatureInScene ==
    [][last'.op = "remove_unused_bones" =>
        /\ (last'.ret = "CANCELLED") <=>
              ~(\E o \in DOMAIN objects : objects[o].type = "ARMATURE")
        /\ last'.ret = "CANCELLED" => UNCHANGED sceneVars]_vars

\* C8 amended: the run is cancelled exactly when no armature is among the
\* selected objects, which covers a scene without an armature; a cancelled run
\* reports the failure, removes no bone and leaves the mode and the active
\* object alone.
C8_FailsIffNoArmatureSelected ==
    [][last'.op = "remove_unused_bones" =>
        /\ (last'.ret = "CANCELLED") <=>
              ~(\E o \in selected_objects : objects[o].type = "ARMATURE")
        /\ ~(\E o \in DOMAIN objects : objects[o].type = "ARMATURE") =>
              last'.ret = "CANCELLED"
        /\ last'.ret = "CANCELLED" =>
              /\ UNCHANGED sceneVars
              /\ last'.msg = "Select an armature first"
              /\ last'.n = 0]_vars

\* A cancelled run in a scene without an armature.
C8_Witness ==
    /\ last.op = "remove_unused_bones" /\ last.ret = "CANCELLED"
    /\ ~(\E o \in DOMAIN objects : objects[o].type = "ARMATURE")

\* ==========================================================================
\* Python float arithmetic (IEEE 754 binary64, round to nearest, ties to even)
\* ==========================================================================
\* A positive float is [m |-> its Precision significand bits, most significant
\* first, e |-> the exponent of the last bit]: its value is m * 2^e.
Precision == 53

Max(a, b) == IF a >= b THEN a ELSE b

\* The n binary digits of v < 2^n, most significant first.
FixedBits(v, n) == [i \in 1 .. n |-> (v \div (2 ^ (n - i))) % 2]

\* The binary digits of a positive int below 2^30, most significant first.
Bits(v) == FixedBits(v, CHOOSE k \in 1 .. 30 : 2 ^ (k - 1) <= v /\ v < 2 ^ k)

RECURSIVE BitsValue(_)
\* The number a short bit sequence writes.
BitsValue(bs) ==
    IF bs = <<>> THEN 0
    ELSE 2 * BitsValue(SubSeq(bs, 1, Len(bs) - 1)) + bs[Len(bs)]

Zeros(n) == [i \in 1 .. n |-> 0]

\* The bit sequence plus one; one bit longer when every bit was set.
Increment(bs) ==
    IF \A i \in 1 .. Len(bs) : bs[i] = 1 THEN <<1>> \o Zeros(Len(bs))
    ELSE LET z == CHOOSE i \in 1 .. Len(bs) :
                      bs[i] = 0 /\ \A j \in i + 1 .. Len(bs) : bs[j] = 1
         IN  [i \in 1 .. Len(bs) |-> IF i < z THEN bs[i] ELSE IF i = z THEN 1 ELSE 0]

\* The float nearest to bs * 2^e (plus a nonzero amount below the last bit
\* when sticky), ties to even.
RoundBits(bs, e, sticky) ==
    IF Len(bs) <= Precision
    THEN [m |-> bs \o Zeros(Precision - Len(bs)), e |-> e - (Precision - Len(bs))]
    ELSE LET keep  == SubSeq(bs, 1, Precision)
             guard == bs[Precision + 1]
             rest  == sticky \/ \E i \in Precision + 2 .. Len(bs) : bs[i] = 1
             drop  == Len(bs) - Precision
             up    == guard = 1 /\ (rest \/ keep[Precision] = 1)
             inc   == Increment(keep)
         IN  IF ~up THEN [m |-> keep, e |-> e + drop]
             ELSE IF Len(inc) = Precision THEN [m |-> inc, e |-> e + drop]
             ELSE [m |-> SubSeq(inc, 1, Precision), e |-> e + drop + 1]

RECURSIVE Normalise(_, _, _)
\* <<a', b', k>> with a / b = (a' / b') * 2^k and b' <= a' < 2 * b'.
Normalise(a, b, k) ==
    IF a < b THEN Normalise(2 * a, b, k - 1)
    ELSE IF a >= 2 * b THEN Normalise(a, 2 * b, k + 1)
    ELSE <<a, b, k>>

RECURSIVE Pow2Mod(_, _)
\* 2^j mod b, by squaring.
Pow2Mod(j, b) ==
    IF j = 0 THEN 1 % b
    ELSE LET h == Pow2Mod(j \div 2, b)
         IN  (((h * h) % b) * (IF j % 2 = 1 THEN 2 ELSE 1)) % b

\* Long division of a by b, b <= a < 2 * b: the remainder left after the
\* first i quotient bits, and quotient bit i.
DivRemainder(a, b, i) == ((a % b) * Pow2Mod(i - 1, b)) % b
DivBit(a, b, i) == IF i = 1 THEN 1 ELSE (2 * DivRemainder(a, b, i - 1)) \div b

\* a / b for positive ints: the correctly rounded quotient.
TrueDiv(a, b) ==
    LET nrm == Normalise(a, b, 0)
        q   == [i \in 1 .. Precision + 1 |-> DivBit(nrm[1], nrm[2], i)]
    IN  RoundBits(q, nrm[3] - Precision, DivRemainder(nrm[1], nrm[2], Precision + 1) # 0)

\* The bits of bs * n for a Precision-bit sequence bs and a positive int n
\* below 2^13, multiplied in limbs of 14 bits with carries.
MulBits(bs, n) ==
    LET p0 == n * BitsValue(SubSeq(bs, Precision - 13, Precision))
        p1 == n * BitsValue(SubSeq(bs, Precision - 27, Precision - 14)) + p0 \div 16384
        p2 == n * BitsValue(SubSeq(bs, Precision - 41, Precision - 28)) + p1 \div 16384
        p3 == n * BitsValue(SubSeq(bs, 1, Precision - 42)) + p2 \div 16384
    IN  Bits(p3) \o FixedBits(p2 % 16384, 14) \o FixedBits(p1 % 16384, 14)
                 \o FixedBits(p0 % 16384, 14)

\* n * x for a positive int n and a float x: the exact product rounded once.
MulIntFloat(n, x) == RoundBits(MulBits(x.m, n), x.e, FALSE)

FloatLess(x, y) ==
    \/ x.e < y.e
    \/ /\ x.e = y.e
       /\ \E i \in 1 .. Precision :
            /\ x.m[i] < y.m[i]
            /\ \A j \in 1 .. i - 1 : x.m[j] = y.m[j]

\* min(x, y)
FloatMin(x, y) == IF FloatLess(y, x) THEN y ELSE x

\* int(x) for a positive float below 2^Precision: truncation.
FloatToInt(x) ==
    IF x.e >= 0 THEN BitsValue(x.m) * (2 ^ x.e)
    ELSE IF Precision + x.e <= 0 THEN 0
    ELSE BitsValue(SubSeq(x.m, 1, Precision + x.e))

\* ==========================================================================
\* VRC_OT_resize_textures
\* ==========================================================================
MinTextureSize     == 128
DefaultTextureSize == 2048
MaxTextureSize     == 4096

\* The ceilings the runs are exercised with, within the property's range.
TextureSizes ==
    {m \in {MinTextureSize, 200, DefaultTextureSize} : MinTextureSize <= m /\ m <= MaxTextureSize}

\* The widths and heights the images are created with.
Dims == {1, 161, 2048, 4096}

\* The test of the loop: the image is larger than max_size in some dimension.
NeedsResize(size, max_size) == size[1] > max_size \/ size[2] > max_size

\* Mutant: the larger of the two quotients is taken.
ResizeRatioLarger(size, max_size) ==
    LET a == TrueDiv(max_size, size[1])
        b == TrueDiv(max_size, size[2])
    IN  IF FloatLess(a, b) THEN b ELSE a

\* ratio = min(max_size / image.size[0], max_size / image.size[1])
ResizeRatio(size, max_size) ==
    FloatMin(TrueDiv(max_size, size[1]), TrueDiv(max_size, size[2]))

\* image.scale(width, height): bpy clamps each argument to the parameter's
\* range, which starts at 1.
ImageScale(width, height) == <<Max(width, 1), Max(height, 1)>>

\* The body of the loop for one image: its size after the run.
ResizeImage(size, max_size) ==
    IF NeedsResize(size, max_size)
    THEN LET ratio      == ResizeRatio(size, max_size)
             new_width  == FloatToInt(MulIntFloat(size[1], ratio))
             new_height == FloatToInt(MulIntFloat(size[2], ratio))
         IN  ImageScale(new_width, new_height)
    ELSE size

ResizeTextures ==
    LET max_size == max_texture_size
        resized  == Cardinality({i \in DOMAIN images : NeedsResize(images[i], max_size)})
    IN  /\ images' = [i \in DOMAIN images |-> ResizeImage(images[i], max_size)]
        /\ last' = Report("resize_textures", "FINISHED", "Resized textures", resized, max_size)
        /\ loads' = <<>>
        /\ UNCHANGED <<max_texture_size, sceneVars, bridgeVars, watchVars, meshVars>>

\* The user sets props.max_texture_size in the panel.
SetMaxTextureSize(m) ==
    /\ m # max_texture_size
    /\ max_texture_size' = m
    /\ last' = Report("set_max_texture_size", "FINISHED", "", 0, m)
    /\ loads' = <<>>
    /\ UNCHANGED <<images, sceneVars, bridgeVars, watchVars, meshVars>>

NoScene == /\ objects = <<>>
           /\ edit_bones = <<>>
           /\ active = NoObject
           /\ mode = "OBJECT"

TexturesInit ==
    /\ images \in [1 .. NumImages -> Dims \X Dims]
    /\ max_texture_size = DefaultTextureSize
    /\ NoScene /\ NoBridge /\ NoWatch /\ NoMeshes
    /\ loads = <<>>
    /\ last = Report("none", "FINISHED", "", 0, 0)

TexturesNext ==
    \/ ResizeTextures
    \/ \E m \in TextureSizes : SetMaxTextureSize(m)

SpecTextures == TexturesInit /\ [][TexturesNext]_vars

\* A step of resize_textures.
ResizeStep == last'.op = "resize_textures"

\* C4: an image is left untouched and not counted iff both its dimensions are
\* already <= max_dimension; otherwise both dimensions are scaled by
\* max_dimension / max(width, height), rounded down (to no less than the one
\* pixel an image can have), and the larger output dimension is max_dimension
\* exactly.
C4_ExactAspectPreservingResize ==
    [][ResizeStep =>
        /\ last'.n = Cardinality({i \in DOMAIN images :
                        ~(images[i][1] <= max_texture_size /\ images[i][2] <= max_texture_size)})
        /\ \A i \in DOMAIN images :
             LET w == images[i][1]
                 h == images[i][2]
                 larger == Max(w, h)
             IN  IF w <= max_texture_size /\ h <= max_texture_size
                 THEN images'[i] = images[i]
                 ELSE /\ images'[i] = <<Max((w * max_texture_size) \div larger, 1),
                                        Max((h * max_texture_size) \div larger, 1)>>
                      /\ Max(images'[i][1], images'[i][2]) = max_texture_size]_vars

\* C5: after a run every image has both dimensions <= the ceiling, so a run
\* that follows with the same ceiling resizes 0 images and changes no
\* dimension.
C5_ResizeIdempotent ==
    [][ResizeStep =>
        /\ \A i \in DOMAIN images' :
             images'[i][1] <= max_texture_size /\ images'[i][2] <= max_texture_size
        /\ \A i \in DOMAIN images' : ~NeedsResize(images'[i], max_texture_size')
        /\ (last.op = "resize_textures" /\ last.m = max_texture_size) =>
              (last'.n = 0 /\ images' = images)]_vars

\* A run that resized nothing, over an image that an earlier run had scaled
\* down to this ceiling.
C5_Witness ==
    /\ last.op = "resize_textures" /\ last.n = 0 /\ last.m = max_texture_size
    /\ \E i \in DOMAIN images :
         /\ images[i] \notin Dims \X Dims
         /\ Max(images[i][1], images[i][2]) + 1 >= max_texture_size

\* ==========================================================================
\* BridgeData
\* ==========================================================================
\* The content of a bridge file that json.load rejects.
Malformed == [kind |-> "malformed"]

\* An exchange document, with the name lists as the sets `in` tests them as.
Doc(avatar, keep, remove) ==
    [kind |-> "document", avatarName |-> avatar, keepObjects |-> keep, removeObjects |-> remove]

\* Mutant: a missing file leaves the cached document in use.
LoadKeepsCacheWhenAbsent(force, f, d, lm) ==
    IF ~f.exists THEN [ret |-> d, data |-> d, lm |-> lm, read |-> FALSE]
    ELSE IF ~force /\ f.mtime = lm /\ d # None
    THEN [ret |-> d, data |-> d, lm |-> lm, read |-> FALSE]
    ELSE IF f.content = Malformed
    THEN [ret |-> None, data |-> d, lm |-> lm, read |-> TRUE]
    ELSE [ret |-> f.content, data |-> f.content, lm |-> f.mtime, read |-> TRUE]

\* Mutant: the modification marker is not compared, every load parses the file.
LoadAlwaysReads(force, f, d, lm) ==
    IF ~f.exists THEN [ret |-> None, data |-> None, lm |-> lm, read |-> FALSE]
    ELSE IF f.content = Malformed
    THEN [ret |-> None, data |-> d, lm |-> lm, read |-> TRUE]
    ELSE [ret |-> f.content, data |-> f.content, lm |-> f.mtime, read |-> TRUE]

\* BridgeData.load(force) on file f with _data = d and _last_modified = lm:
\* the value returned, the class state left, and whether the file was parsed.
Load(force, f, d, lm) ==
    IF ~f.exists THEN [ret |-> None, data |-> None, lm |-> lm, read |-> FALSE]
    ELSE IF ~force /\ f.mtime = lm /\ d # None
    THEN [ret |-> d, data |-> d, lm |-> lm, read |-> FALSE]
    ELSE IF f.content = Malformed
    THEN [ret |-> None, data |-> d, lm |-> lm, read |-> TRUE]
    ELSE [ret |-> f.content, data |-> f.content, lm |-> f.mtime, read |-> TRUE]

\* The record of one load call, kept in loads.
LoadRecord(force, f, d, lm, r) ==
    [force |-> force, exists |-> f.exists, mtime |-> f.mtime, content |-> f.content,
     data0 |-> d, lm0 |-> lm, ret |-> r.ret, read |-> r.read, data1 |-> r.data, lm1 |-> r.lm]

\* BridgeData.get_keep_objects / get_remove_objects on the value load returned.
get_keep_objects(ret)   == IF ret # None THEN ret.keepObjects ELSE {}
get_remove_objects(ret) == IF ret # None THEN ret.removeObjects ELSE {}

\* BridgeData.has_new_data()
has_new_data(f, lm) == f.exists /\ f.mtime # lm

\* ==========================================================================
\* Name resolution
\* ==========================================================================
Digits == {"0", "1", "2", "3", "4", "5", "6", "7", "8", "9"}

\* str.isdigit()
isdigit(s) == s # <<>> /\ \A i \in 1 .. Len(s) : s[i] \in Digits

\* The index of the last '.' of a name that has one.
LastDot(name) ==
    CHOOSE i \in 1 .. Len(name) :
        name[i] = "." /\ \A j \in i + 1 .. Len(name) : name[j] # "."

\* name.rsplit('.', 1) for a name that has a '.'
rsplit(name) ==
    <<SubSeq(name, 1, LastDot(name) - 1), SubSeq(name, LastDot(name) + 1, Len(name))>>

\* Mutant: the suffix after the last '.' is stripped whatever it is.
base_name_any_suffix(obj_name) ==
    IF \E i \in 1 .. Len(obj_name) : obj_name[i] = "."
    THEN rsplit(obj_name)[1]
    ELSE obj_name

\* base_name = obj_name.rsplit('.', 1)[0] if '.' in obj_name and
\*             obj_name.rsplit('.', 1)[1].isdigit() else obj_name
base_name(obj_name) ==
    IF (\E i \in 1 .. Len(obj_name) : obj_name[i] = ".") /\ isdigit(rsplit(obj_name)[2])
    THEN rsplit(obj_name)[1]
    ELSE obj_name

\* obj_name in names or base_name in names
InList(obj_name, names) == obj_name \in names \/ base_name(obj_name) \in names

\* ==========================================================================
\* VRC_OT_load_bridge, VRC_OT_apply_bridge_selection, VRC_OT_delete_unselected
\* ==========================================================================
LoadBridge ==
    LET l == Load(TRUE, file, data, last_modified) IN
    /\ data' = l.data
    /\ last_modified' = l.lm
    /\ loads' = <<LoadRecord(TRUE, file, data, last_modified, l)>>
    /\ IF l.ret = None
       THEN /\ last' = Report("load_bridge", "CANCELLED",
                              "No bridge file found. Export from Unity first.", 0, 0)
            /\ UNCHANGED bridge_props
       ELSE /\ bridge_props' = [avatar_name  |-> l.ret.avatarName,
                                keep_count   |-> Cardinality(l.ret.keepObjects),
                                remove_count |-> Cardinality(l.ret.removeObjects)]
            /\ last' = Report("load_bridge", "FINISHED", "Loaded bridge data",
                              Cardinality(l.ret.keepObjects), Cardinality(l.ret.removeObjects))
    /\ UNCHANGED <<file, sceneVars, imageVars, watchVars, meshVars>>

\* The loop body of apply_bridge_selection for one object, after the deselection.
ApplyToObject(obj_name, obj, keep_objects, remove_objects) ==
    IF InList(obj_name, keep_objects)
    THEN hide_set(select_set(obj, TRUE), FALSE)
    ELSE IF InList(obj_name, remove_objects)
    THEN hide_set(select_set(obj, FALSE), TRUE)
    ELSE obj

\* VRC_OT_apply_bridge_selection.execute on the objects objs, the file f and the
\* class state d, lm: what it returns and reports, and the state it leaves.
ApplyResult(objs, f, d, lm) ==
    LET l1 == Load(FALSE, f, d, lm)
        keep_objects == get_keep_objects(l1.ret)
        l2 == Load(FALSE, f, l1.data, l1.lm)
        remove_objects == get_remove_objects(l2.ret)
        recs == <<LoadRecord(FALSE, f, d, lm, l1), LoadRecord(FALSE, f, l1.data, l1.lm, l2)>>
        deselected == [o \in DOMAIN objs |-> select_set(objs[o], FALSE)]
        kept == {o \in DOMAIN objs : InList(o, keep_objects)}
        marked_remove == {o \in DOMAIN objs \ kept : InList(o, remove_objects)}
    IN  IF keep_objects = {} /\ remove_objects = {}
        THEN [ret |-> "CANCELLED", msg |-> "No bridge data loaded", objects |-> objs,
              n |-> 0, m |-> 0, data |-> l2.data, lm |-> l2.lm, loads |-> recs]
        ELSE [ret |-> "FINISHED", msg |-> "Applied",
              objects |-> [o \in DOMAIN objs |->
                             ApplyToObject(o, deselected[o], keep_objects, remove_objects)],
              n |-> Cardinality(kept), m |-> Cardinality(marked_remove),
              data |-> l2.data, lm |-> l2.lm, loads |-> recs]

ApplyBridgeSelection ==
    LET a == ApplyResult(objects, file, data, last_modified) IN
    /\ objects' = a.objects
    /\ data' = a.data
    /\ last_modified' = a.lm
    /\ loads' = a.loads
    /\ last' = Report("apply_bridge_selection", a.ret, a.msg, a.n, a.m)
    /\ UNCHANGED <<file, bridge_props, edit_bones, active, mode, imageVars, watchVars, meshVars>>

\* VRC_OT_delete_unselected.execute, in the same terms.
DeleteResult(objs, f, d, lm) ==
    LET l == Load(FALSE, f, d, lm)
        remove_objects == get_remove_objects(l.ret)
        to_delete == {o \in DOMAIN objs : InList(o, remove_objects) \/ objs[o].hide}
    IN  [ret |-> "FINISHED", msg |-> "Deleted objects",
         objects |-> [o \in DOMAIN objs \ to_delete |-> objs[o]],
         n |-> Cardinality(to_delete), m |-> 0,
         data |-> l.data, lm |-> l.lm, loads |-> <<LoadRecord(FALSE, f, d, lm, l)>>]

DeleteUnselected ==
    LET r == DeleteResult(objects, file, data, last_modified) IN
    /\ objects' = r.objects
    /\ data' = r.data
    /\ last_modified' = r.lm
    /\ loads' = r.loads
    /\ last' = Report("delete_unselected", r.ret, r.msg, r.n, r.m)
    /\ UNCHANGED <<file, bridge_props, edit_bones, active, mode, imageVars, watchVars, meshVars>>

\* ==========================================================================
\* VRC_OT_folder_watch, VRC_OT_stop_watch
\* ==========================================================================
\* Mutant: cancel leaves the class-level running marker set.
CancelKeepsRunning == [timer |-> NoTimer, running |-> running, watch_enabled |-> FALSE]

\* VRC_OT_folder_watch.cancel: the timer is removed and both flags are cleared.
Cancel == [timer |-> NoTimer, running |-> FALSE, watch_enabled |-> FALSE]

\* VRC_OT_folder_watch.execute
FolderWatchExecute ==
    /\ IF running
       THEN /\ last' = Report("folder_watch", "CANCELLED", "Folder watch already running", 0, 0)
            /\ UNCHANGED <<timer, running, watch_enabled>>
       ELSE /\ timer' = "Timer"
            /\ running' = TRUE
            /\ watch_enabled' = TRUE
            /\ last' = Report("folder_watch", "RUNNING_MODAL", "Started watching bridge folder", 0, 0)
    /\ loads' = <<>>
    /\ UNCHANGED <<auto_apply, auto_delete, sceneVars, imageVars, bridgeVars, meshVars>>

\* VRC_OT_folder_watch.modal on a TIMER event of the running operator.
FolderWatchModal ==
    /\ running
    /\ IF ~watch_enabled
       THEN /\ timer' = Cancel.timer
            /\ running' = Cancel.running
            /\ watch_enabled' = Cancel.watch_enabled
            /\ loads' = <<>>
            /\ last' = Report("folder_watch_modal", "CANCELLED", "", 0, 0)
            /\ UNCHANGED <<objects, data, last_modified>>
       ELSE /\ UNCHANGED <<timer, running, watch_enabled>>
            /\ IF ~has_new_data(file, last_modified)
               THEN /\ loads' = <<>>
                    /\ last' = Report("folder_watch_modal", "PASS_THROUGH", "", 0, 0)
                    /\ UNCHANGED <<objects, data, last_modified>>
               ELSE LET l == Load(TRUE, file, data, last_modified)
                        rec == <<LoadRecord(TRUE, file, data, last_modified, l)>>
                        a == ApplyResult(objects, file, l.data, l.lm)
                        r == DeleteResult(a.objects, file, a.data, a.lm)
                    IN  IF l.ret = None \/ ~auto_apply
                        THEN /\ data' = l.data
                             /\ last_modified' = l.lm
                             /\ loads' = rec
                             /\ last' = Report("folder_watch_modal", "PASS_THROUGH",
                                               IF l.ret = None THEN ""
                                               ELSE "New bridge data detected", 0, 0)
                             /\ UNCHANGED objects
                        ELSE IF ~auto_delete
                        THEN /\ objects' = a.objects
                             /\ data' = a.data
                             /\ last_modified' = a.lm
                             /\ loads' = rec \o a.loads
                             /\ last' = Report("folder_watch_modal", "PASS_THROUGH",
                                               "New bridge data detected", a.n, 0)
                        ELSE /\ objects' = r.objects
                             /\ data' = r.data
                             /\ last_modified' = r.lm
                             /\ loads' = rec \o a.loads \o r.loads
                             /\ last' = Report("folder_watch_modal", "PASS_THROUGH",
                                               "New bridge data detected", a.n, r.n)
    /\ UNCHANGED <<file, bridge_props, auto_apply, auto_delete, edit_bones, active, mode, imageVars, meshVars>>

\* VRC_OT_stop_watch.execute
StopWatch ==
    /\ watch_enabled' = FALSE
    /\ last' = Report("stop_watch", "FINISHED", "Stopped watching bridge folder", 0, 0)
    /\ loads' = <<>>
    /\ UNCHANGED <<timer, running, auto_apply, auto_delete, sceneVars, imageVars, bridgeVars, meshVars>>

\* The user ticks or clears props.auto_apply in the panel.
ToggleAutoApply ==
    /\ auto_apply' = ~auto_apply
    /\ last' = Report("toggle_auto_apply", "FINISHED", "", 0, 0)
    /\ loads' = <<>>
    /\ UNCHANGED <<timer, running, watch_enabled, auto_delete, sceneVars, imageVars, bridgeVars, meshVars>>

\* The user ticks or clears props.auto_delete in the panel.
ToggleAutoDelete ==
    /\ auto_delete' = ~auto_delete
    /\ last' = Report("toggle_auto_delete", "FINISHED", "", 0, 0)
    /\ loads' = <<>>
    /\ UNCHANGED <<timer, running, watch_enabled, auto_apply, sceneVars, imageVars, bridgeVars, meshVars>>

\* ==========================================================================
\* The bridge file, written and deleted by the exporter
\* ==========================================================================
AbsentFile == [exists |-> FALSE, mtime |-> 0, content |-> None]

FileWrite(content, mtime) ==
    /\ file # [exists |-> TRUE, mtime |-> mtime, content |-> content]
    /\ file' = [exists |-> TRUE, mtime |-> mtime, content |-> content]
    /\ last' = Report("file_write", "FINISHED", "", 0, 0)
    /\ loads' = <<>>
    /\ UNCHANGED <<data, last_modified, bridge_props, sceneVars, imageVars, watchVars, meshVars>>

FileDelete ==
    /\ file.exists
    /\ file' = AbsentFile
    /\ last' = Report("file_delete", "FINISHED", "", 0, 0)
    /\ loads' = <<>>
    /\ UNCHANGED <<data, last_modified, bridge_props, sceneVars, imageVars, watchVars, meshVars>>

\* ==========================================================================
\* The bridge cache and the watch loop over a small scene
\* ==========================================================================
Hips    == <<"H", "i", "p", "s">>
Ears    == <<"E", "a", "r", "s">>
Hips002 == Hips \o <<".", "0", "0", "2">>

DocA == Doc("A", {Hips}, {Ears})
DocB == Doc("B", {}, {Hips})

BridgeContents == {Malformed, DocA, DocB}

BridgeInit ==
    /\ objects = [o \in {Hips002, Ears} |->
                    Object("MESH", FALSE, o = Ears, {})]
    /\ edit_bones = <<>>
    /\ active = NoObject
    /\ mode = "OBJECT"
    /\ NoImages /\ NoBridge /\ NoWatch /\ NoMeshes
    /\ loads = <<>>
    /\ last = Report("none", "FINISHED", "", 0, 0)

BridgeNext ==
    \/ \E c \in BridgeContents, t \in 1 .. MaxMtime : FileWrite(c, t)
    \/ FileDelete
    \/ LoadBridge
    \/ ApplyBridgeSelection
    \/ DeleteUnselected

SpecBridge == BridgeInit /\ [][BridgeNext]_vars

\* The watch loop, with the exporter writing and deleting the file under it.
WatchNext ==
    \/ \E c \in BridgeContents, t \in 1 .. MaxMtime : FileWrite(c, t)
    \/ FileDelete
    \/ FolderWatchExecute
    \/ FolderWatchModal
    \/ StopWatch
    \/ ToggleAutoApply
    \/ ToggleAutoDelete

SpecWatch == BridgeInit /\ [][WatchNext]_vars

\* ==========================================================================
\* Properties of the bridge cache and of the watch loop
\* ==========================================================================
LoadCalls == {loads[i] : i \in 1 .. Len(loads)}

\* C7: with the bridge file absent, load_bridge gets Absent from load whatever
\* was cached and is cancelled, and apply_bridge_selection reports "No bridge
\* data loaded", is cancelled and leaves every object's visibility and
\* selection as they were.
C7_AbsentFileNoMutation ==
    [][~file.exists =>
        /\ last'.op = "load_bridge" =>
             /\ last'.ret = "CANCELLED"
             /\ \A c \in {loads'[i] : i \in 1 .. Len(loads')} : c.ret = None
        /\ last'.op = "apply_bridge_selection" =>
             /\ last'.ret = "CANCELLED"
             /\ last'.msg = "No bridge data loaded"
             /\ \A c \in {loads'[i] : i \in 1 .. Len(loads')} : c.ret = None
             /\ objects' = objects]_vars

\* apply_bridge_selection was cancelled on an absent file while a document
\* with a non-empty list was still cached.
C7_Witness ==
    /\ ~file.exists
    /\ last.op = "apply_bridge_selection" /\ last.ret = "CANCELLED"
    /\ Len(loads) = 2
    /\ loads[1].data0 # None
    /\ loads[1].data0.keepObjects # {}
    /\ \E o \in DOMAIN objects : objects[o].select

\* C9 as stated: a non-forced load issued while the file's marker equals the
\* recorded marker returns the previously parsed document without reading the
\* file; the marker changes only with a successful parse, and a malformed
\* document yields Absent and leaves the marker.
C9_UnchangedMarkerServedFromCache ==
    \A c \in LoadCalls :
        /\ (~c.force /\ c.exists /\ c.mtime = c.lm0) =>
              (~c.read /\ c.ret # None /\ c.ret = c.data0)
        /\ c.lm1 # c.lm0 => (c.read /\ c.content # Malformed /\ c.lm1 = c.mtime)
        /\ (c.read /\ c.content = Malformed) => (c.ret = None /\ c.lm1 = c.lm0)

\* C9 amended: the cached document is returned without reading the file when,
\* besides the marker being unchanged, a document is still cached, that is, no
\* load since the last successful one found the file absent.
C9_UnchangedMarkerServedWhileCached ==
    \A c \in LoadCalls :
        /\ (~c.force /\ c.exists /\ c.mtime = c.lm0 /\ c.data0 # None) =>
              (~c.read /\ c.ret = c.data0 /\ c.data1 = c.data0 /\ c.lm1 = c.lm0)
        /\ (~c.force /\ c.exists /\ c.mtime = c.lm0 /\ c.data0 = None) => c.read
        /\ c.lm1 # c.lm0 => (c.read /\ c.content # Malformed /\ c.lm1 = c.mtime)
        /\ (c.read /\ c.content = Malformed) =>
              (c.ret = None /\ c.lm1 = c.lm0 /\ c.data1 = c.data0)

\* A non-forced load was served from the cache while the file, under the same
\* marker, held something else than the cached document.
C9_Witness ==
    \E c \in LoadCalls :
        /\ ~c.force /\ c.exists /\ c.mtime = c.lm0 /\ c.data0 # None
        /\ ~c.read
        /\ c.content # c.data0

\* C10: once watch_enabled is cleared under a running watch loop it stays
\* cleared and the loop stays registered until the next timer tick; that tick
\* is cancelled, removes the timer, clears the running marker and does no
\* load, apply or delete; and a watch loop started when none is running starts.
C10_CooperativeCancellation ==
    [][/\ (running /\ ~watch_enabled /\ last'.op # "folder_watch_modal") =>
            (running' /\ ~watch_enabled' /\ timer' = timer)
       /\ (running /\ ~watch_enabled /\ last'.op = "folder_watch_modal") =>
            /\ last'.ret = "CANCELLED"
            /\ ~running' /\ timer' = NoTimer /\ ~watch_enabled'
            /\ loads' = <<>>
            /\ UNCHANGED <<objects, file, data, last_modified>>
       /\ (~running /\ last'.op = "folder_watch") =>
            /\ last'.ret = "RUNNING_MODAL"
            /\ running' /\ watch_enabled' /\ timer' # NoTimer]_vars

\* The tick that ended a stopped watch loop, with new bridge data waiting and
\* both automatic steps switched on.
C10_Witness ==
    /\ last.op = "folder_watch_modal" /\ last.ret = "CANCELLED"
    /\ ~running /\ timer = NoTimer
    /\ has_new_data(file, last_modified) /\ file.content = DocA
    /\ auto_apply /\ auto_delete

\* ==========================================================================
\* Name resolution over a scene of suffixed duplicates
\* ==========================================================================
HipsAbc    == Hips \o <<".", "a", "b", "c">>
HipsDot    == Hips \o <<".">>
Hips002001 == Hips002 \o <<".", "0", "0", "1">>

\* The names of the objects of the scene, and the names the lists draw on.
ObjectNames == {Hips, Hips002, HipsAbc, HipsDot, Hips002001}
ListNames   == {Hips, Hips002, HipsAbc}

NamesInit ==
    /\ \E hidden \in SUBSET ObjectNames :
         objects = [o \in ObjectNames |-> Object("MESH", o \in hidden, FALSE, {})]
    /\ \E keep \in SUBSET ListNames, remove \in SUBSET ListNames :
         file = [exists |-> TRUE, mtime |-> 1, content |-> Doc("Avatar", keep, remove)]
    /\ data = None
    /\ last_modified = 0
    /\ bridge_props = [avatar_name |-> "", keep_count |-> 0, remove_count |-> 0]
    /\ edit_bones = <<>>
    /\ active = NoObject
    /\ mode = "OBJECT"
    /\ NoImages /\ NoWatch /\ NoMeshes
    /\ loads = <<>>
    /\ last = Report("none", "FINISHED", "", 0, 0)

NamesNext ==
    \/ ApplyBridgeSelection
    \/ DeleteUnselected

SpecNames == NamesInit /\ [][NamesNext]_vars

\* The match as the claim words it: the exact name is in the list, or the name
\* is a listed name followed by '.' and one or more digits.
NameMatches(name, names) ==
    \/ name \in names
    \/ \E k \in 1 .. Len(name) - 1 :
         /\ name[k] = "."
         /\ \A j \in k + 1 .. Len(name) : name[j] \in Digits
         /\ SubSeq(name, 1, k - 1) \in names

\* C6: apply_bridge_selection keeps (unhides and counts) exactly the objects
\* that match keepObjects, hides and counts as marked exactly the others that
\* match removeObjects, and delete_marked deletes exactly the objects that
\* match removeObjects or are hidden, where an object matches a list iff its
\* exact name is in it or its name less a '.'-and-digits suffix is.
C6_NameResolution ==
    [][/\ (last'.op = "apply_bridge_selection" /\ last'.ret = "FINISHED") =>
            LET keep   == get_keep_objects(loads'[1].ret)
                remove == get_remove_objects(loads'[2].ret)
                kept   == {o \in DOMAIN objects : NameMatches(o, keep)}
                marked == {o \in DOMAIN objects \ kept : NameMatches(o, remove)}
            IN  /\ last'.n = Cardinality(kept)
                /\ last'.m = Cardinality(marked)
                /\ \A o \in kept : ~objects'[o].hide
                /\ \A o \in marked : objects'[o].hide /\ ~objects'[o].select
                /\ \A o \in DOMAIN objects \ (kept \cup marked) :
                     objects'[o].hide = objects[o].hide
       /\ last'.op = "delete_unselected" =>
            LET remove == get_remove_objects(loads'[1].ret)
            IN  DOMAIN objects' =
                  {o \in DOMAIN objects : ~(NameMatches(o, remove) \/ objects[o].hide)}]_vars

\* keepObjects = ["Hips"] kept "Hips" and "Hips.002" and no other object, and
\* removeObjects = ["Hips.abc"] marked "Hips.abc" alone.
C6_Witness ==
    /\ last.op = "apply_bridge_selection" /\ last.ret = "FINISHED"
    /\ loads[1].ret.keepObjects = {Hips}
    /\ loads[2].ret.removeObjects = {HipsAbc}
    /\ ObjectNames \subseteq DOMAIN objects
    /\ last.n = 2 /\ last.m = 1
    /\ ~objects[Hips002].hide /\ objects[Hips002].select
    /\ objects[HipsAbc].hide
    /\ ~objects[HipsDot].select /\ ~objects[Hips002001].select

\* ==========================================================================
\* VRC_OT_decimate_mesh
\* ==========================================================================
\* Assigning props.decimate_ratio: the property clamps the value to its limits.
SetDecimateRatioUnclamped(r) ==
    /\ decimate_ratio' = r
    /\ last' = Report("set_decimate_ratio", "FINISHED", "", 0, r)
    /\ loads' = <<>>
    /\ UNCHANGED <<polygons, sceneVars, imageVars, bridgeVars, watchVars>>

SetDecimateRatio(r) ==
    /\ decimate_ratio' = IF r < MinDecimateRatio THEN MinDecimateRatio
                         ELSE IF r > MaxDecimateRatio THEN MaxDecimateRatio
                         ELSE r
    /\ last' = Report("set_decimate_ratio", "FINISHED", "", 0, r)
    /\ loads' = <<>>
    /\ UNCHANGED <<polygons, sceneVars, imageVars, bridgeVars, watchVars>>

\* VRC_OT_analyze's triangle count: the triangles of the visible meshes.
RECURSIVE SumTriangles(_, _)
SumTriangles(polys, S) ==
    IF S = {} THEN 0
    ELSE LET o == CHOOSE x \in S : TRUE IN polys[o] + SumTriangles(polys, S \ {o})

total_tris(objs, polys) ==
    SumTriangles(polys, {o \in DOMAIN objs : objs[o].type = "MESH" /\ ~objs[o].hide})

\* Applying a collapse decimate modifier of the given ratio: the faces are
\* collapsed down to ratio times their number.
modifier_apply(tris, ratio) == (tris * ratio) \div 100

\* The meshes the operator visits.
SelectedMeshes == {o \in selected_objects : objects[o].type = "MESH"}

DecimateMesh ==
    LET ratio == decimate_ratio
        meshes == SelectedMeshes
    IN  /\ polygons' = [o \in DOMAIN polygons |->
                          IF o \in meshes THEN modifier_apply(polygons[o], ratio)
                          ELSE polygons[o]]
        /\ IF meshes = {} THEN active' = active ELSE active' \in meshes
        /\ last' = Report("decimate_mesh", "FINISHED", "Decimated meshes",
                          Cardinality(meshes), ratio)
        /\ loads' = <<>>
        /\ UNCHANGED <<objects, edit_bones, mode, decimate_ratio, imageVars, bridgeVars,
                       watchVars>>

\* The triangle counts the meshes start with, and the values a user or a
\* script assigns to the ratio.
BodyTriangles == {35000, 100000}
HairTriangles == {4}
RatioInputs   == {0, 50, 100, 150}

DecimateInit ==
    /\ objects = [o \in {ArmatureName, BodyName, HairName} |->
                    Object(IF o = ArmatureName THEN "ARMATURE" ELSE "MESH", FALSE, FALSE, {})]
    /\ \E body \in BodyTriangles, hair \in HairTriangles :
         polygons = [o \in {BodyName, HairName} |-> IF o = BodyName THEN body ELSE hair]
    /\ decimate_ratio = DefaultDecimateRatio
    /\ edit_bones = <<>>
    /\ active = NoObject
    /\ mode = "OBJECT"
    /\ NoImages /\ NoBridge /\ NoWatch
    /\ loads = <<>>
    /\ last = Report("none", "FINISHED", "", 0, 0)

DecimateNext ==
    \/ DecimateMesh
    \/ \E r \in RatioInputs : SetDecimateRatio(r)
    \/ \E o \in {ArmatureName, BodyName, HairName} : UserSelect(o)
    \/ UserHide(HairName)

SpecDecimate == DecimateInit /\ [][DecimateNext]_vars

DecimateStep == last'.op = "decimate_mesh"

\* The triangle budget the panel measures the scene against.
TriangleBudget == 70000

\* C11 (as claimed): the ratio decimate applies is derived from the triangle
\* counts: with the scene's current triangles at or under the target it is
\* exactly 1.0 and no mesh is modified; otherwise it is target / current
\* (within a hundredth, and not under the 0.01 floor); it is always > 0 and
\* <= 1.
C11_RatioDerivedFromTriangleCounts ==
    [][DecimateStep /\ SelectedMeshes # {} =>
         LET current == total_tris(objects, polygons)
             target  == TriangleBudget
         IN  /\ last'.m > 0 /\ last'.m <= 100
             /\ IF current <= target
                THEN last'.m = 100 /\ polygons' = polygons
                ELSE \/ /\ last'.m * current <= 100 * target + current
                        /\ last'.m * current >= 100 * target - current
                     \/ /\ last'.m = MinDecimateRatio
                        /\ 100 * target <= current]_vars

\* C11 (amended): the ratio decimate applies is the configured decimate_ratio,
\* whatever the triangle counts are; it is applied to every selected visible
\* mesh and to no other object, also when the scene is within the budget; and
\* it is always >= 0.01 (so > 0) and <= 1.
C11_RatioIsConfiguredSetting ==
    [][DecimateStep =>
         /\ last'.m = decimate_ratio
         /\ last'.m >= MinDecimateRatio /\ last'.m > 0 /\ last'.m <= MaxDecimateRatio
         /\ last'.n = Cardinality(SelectedMeshes)
         /\ \A o \in DOMAIN polygons :
              polygons'[o] = IF o \in SelectedMeshes
                             THEN (polygons[o] * decimate_ratio) \div 100
                             ELSE polygons[o]]_vars

\* A scene of 35,000 + 4 triangles, within the budget, whose body mesh was
\* decimated to half its triangles all the same.
C11_Witness ==
    /\ last.op = "decimate_mesh" /\ last.n = 1 /\ last.m = 50
    /\ polygons[BodyName] = 17500 /\ polygons[HairName] = 4
    /\ total_tris(objects, polygons) <= TriangleBudget

\* ==========================================================================
\* Keep against remove through apply_bridge_selection and delete_unselected
\* ==========================================================================
\* C12: keep wins over remove through the whole apply-then-delete sequence:
\* an object that apply_bridge_selection counted as kept (its exact name or
\* base name is in keepObjects; it is selected and unhidden) is not deleted by
\* the delete_unselected that follows, also when its exact name or base name
\* is in removeObjects as well.
C12_KeepWinsThroughDelete ==
    [][(/\ last.op = "apply_bridge_selection" /\ last.ret = "FINISHED"
        /\ last'.op = "delete_unselected") =>
         \A o \in DOMAIN objects :
            (/\ InList(o, get_keep_objects(loads[1].ret))
             /\ objects[o].select /\ ~objects[o].hide) => o \in DOMAIN objects']_vars

====
